---- MODULE Spec2Model ----
(***************************************************************************)
(* A model of delta-inspect's clustering-health analysis                   *)
(* (delta_inspect/clustering/core.py, delta_inspect/cli/clustering.py),    *)
(* of its table summary (delta_inspect/summary/core.py), of the items of   *)
(* its distributions (delta_inspect/distribution/core.py), and of the      *)
(* helpers they use (delta_inspect/util/statistics.py, util/history.py,    *)
(* util/model.py).                                                         *)
(*                                                                         *)
(* Four specifications:                                                    *)
(*   SpecHist     compute_distribution_metrics,                            *)
(*                compute_histogram_metrics and _get_min_max_items         *)
(*                applied to bounded value sequences and bin-edge lists;   *)
(*   SpecHistory  extract_operation_params applied to bounded commit       *)
(*                histories;                                               *)
(*   Spec         one request, statement by statement, on a bounded        *)
(*                table: clustering_health (called directly or through     *)
(*                clustering_command) or summary;                          *)
(*   SpecTwo      two clustering_health requests in one process, their     *)
(*                statements interleaved.                                  *)
(*                                                                         *)
(* Library behaviour the code relies on, modelled as the libraries do it:  *)
(*   polars Series.hist(bins=e1..en) returns n-1 rows, one per             *)
(*     bucket, "breakpoint" being the bucket's UPPER edge; buckets are     *)
(*     right-closed (e(j), e(j+1)], the first also closed on the left;     *)
(*     values outside [e1, en] are in no row.                              *)
(*   polars unique() keeps null as a value, sort() puts null first, and    *)
(*     replace_strict(old, new) with a null in old maps null to the        *)
(*     paired new value.                                                   *)
(*   polars quantile(q) interpolates by "nearest" unless told otherwise;   *)
(*     std() has ddof = 1 and is null for fewer than 2 values.             *)
(*   polars top_k_by(by, k, reverse) takes the elements of the k LARGEST   *)
(*     by values, of the k smallest when reverse is set.                   *)
(*   deltalake: version() is the index of the latest commit, history()     *)
(*     lists the commits most recent first, get_add_actions() the files    *)
(*     added and not removed since, whose min, max and null_count          *)
(*     structs have the data columns only, not the partition columns.      *)
(*   rtree index.Index() has dimension 2.  A coordinate list of length 2   *)
(*     is a point; with interleaved = False a list of length 4 is          *)
(*     (xmin, xmax, ymin, ymax); any other length raises.                  *)
(*   pydantic rejects None for a field typed int | float, and for a field  *)
(*     typed list[str] when None is passed for it.                         *)
(***************************************************************************)
EXTENDS Integers, Sequences, FiniteSets, TLC

VARIABLES
    \* ---- SpecHist: compute_histogram_metrics(df, column, bins)
    h_values,             \* df[column]
    h_bins,               \* bins
    h_dist,               \* what compute_distribution_metrics produced
    h_hist,               \* what compute_histogram_metrics produced
    h_items,              \* what _get_min_max_items returns
    h_pc,                 \* "idle" | "call" | "hist" | "done" | "items"
    \* ---- Spec: clustering_health(path, columns)
    columns,              \* requested column names
    add_actions,          \* dt.get_add_actions(): one row per active file
    pc,                   \* position in clustering_health
    df_filled,
    df_encoded,
    null_counts,
    df_non_nulls,
    rindex,               \* the R-tree's entries
    cursor,               \* row of the running loop (insert, count)
    overlap_counts,
    metrics_overlap,
    metrics_distribution,
    hist,
    report,               \* the Clustering model returned, or the exception
    \* ---- the table a request reads, and its lineage
    path,                 \* the path handed to load_table
    loaded,               \* whether load_table returned a DeltaTable
    history,              \* dt.history(), most recent commit first
    clustering_columns,   \* extract_operation_params(history, "clusterBy")
    zorder_columns,       \* extract_operation_params(history, "zOrderBy")
    \* ---- SpecHistory: extract_operation_params(history, param_key)
    l_pc,                 \* "idle" | "clusterBy" | "zOrderBy" | "done"
    \* ---- Spec: summary(path)
    s_pc,                 \* position in summary
    delta_log,            \* the commits of the table at path, oldest first
    df_add_actions,       \* dt.get_add_actions() as summary reads it
    table_statistics,
    column_statistics,
    last_timestamps,      \* the three timestamps taken from the history
    table_summary,        \* the TableSummary returned, or the exception
    \* ---- SpecTwo: two clustering_health requests in one process
    requests,             \* the locals of each request
    module_BINS           \* clustering/core.py's module-level list BINS

hvars == <<h_values, h_bins, h_dist, h_hist, h_items, h_pc>>
dvars == <<path, loaded, history, clustering_columns, zorder_columns>>
cvars == <<columns, add_actions, pc, df_filled, df_encoded, null_counts,
           df_non_nulls, rindex, cursor, overlap_counts, metrics_overlap,
           metrics_distribution, hist, report>>
\* What no statement of clustering_health touches.
svars == <<s_pc, delta_log, df_add_actions, table_statistics,
           column_statistics, last_timestamps, table_summary>>
tvars == <<requests, module_BINS>>
xvars == <<hvars, l_pc, svars, tvars>>
vars == <<hvars, cvars, dvars, l_pc, svars, tvars>>

----------------------------------------------------------------------------
\* Bounds of the model.

\* SpecHist: values are 0..MaxHistVal, sequences up to MaxHistLen long.
MaxHistVal == 4
MaxHistLen == 3
\* Spec: tables of up to MaxFiles files, statistics values 0..MaxVal.
MaxFiles == 2
MaxVal == 1

----------------------------------------------------------------------------
\* Generic helpers.

\* Python's None / polars' null, for values that are otherwise naturals.
None == -1

Range(s) == {s[i] : i \in 1..Len(s)}

RECURSIVE SeqSum(_)
SeqSum(s) == IF s = <<>> THEN 0 ELSE s[1] + SeqSum(Tail(s))

\* pl.Series.max() / min(): None on an empty series.
SeriesMax(s) ==
    IF s = <<>> THEN None
    ELSE CHOOSE m \in Range(s) : \A v \in Range(s) : v <= m

SeriesMin(s) ==
    IF s = <<>> THEN None
    ELSE CHOOSE m \in Range(s) : \A v \in Range(s) : m <= v

\* All sequences over S of length 0..n.
SeqsUpTo(S, n) == UNION {[1..k -> S] : k \in 0..n}

\* The elements of a finite set of integers in ascending order.
RECURSIVE SortedSeq(_)
SortedSeq(S) ==
    IF S = {} THEN <<>>
    ELSE LET m == CHOOSE x \in S : \A y \in S : x <= y
         IN  <<m>> \o SortedSeq(S \ {m})

----------------------------------------------------------------------------
\* util/model.py

\* Histogram(bins=..., cnts=...): bins is list[int | float], so a None
\* among the bins fails validation.  The lists handed to the constructor are
\* kept in the result either way.
Histogram(bins, cnts) ==
    [status |-> IF \E i \in 1..Len(bins) : bins[i] = None
                THEN "ValidationError" ELSE "ok",
     bins |-> bins, cnts |-> cnts]

----------------------------------------------------------------------------
\* util/statistics.py

\* df[column].hist(bins=bins): one row per bucket between consecutive edges.
\* Row j has breakpoint bins[j+1] and counts the values in
\* (bins[j], bins[j+1]], the first row in [bins[1], bins[2]].
PolarsHistInBucket(v, bins, j) ==
    /\ v <= bins[j + 1]
    /\ IF j = 1 THEN bins[1] <= v ELSE bins[j] < v

PolarsHist(values, bins) ==
    [breakpoint |-> [j \in 1..(Len(bins) - 1) |-> bins[j + 1]],
     count |-> [j \in 1..(Len(bins) - 1) |->
                   Cardinality({i \in 1..Len(values) :
                                   PolarsHistInBucket(values[i], bins, j)})]]

\* Line 40: df.filter(pl.col(column) >= hist_bins[-1]).shape[0]
GreaterThanMaxBin(values, hist_bins) ==
    Cardinality({i \in 1..Len(values) : values[i] >= hist_bins[Len(hist_bins)]})

\* Line 44: df.filter(pl.col(column) < bins[0]).shape[0]
\* (LowerThanMinBin_dropped: the fold of line 45 left out.)
LowerThanMinBin_dropped(values, bins) == 0

LowerThanMinBin(values, bins) ==
    Cardinality({i \in 1..Len(values) : values[i] < bins[1]})

\* (compute_histogram_metrics_no_append: line 41 left out, so that the
\* overflow count is appended without its edge.)
compute_histogram_metrics_no_append(values, bins) ==
    LET df_hist == PolarsHist(values, bins)
        appended == Append(df_hist.count,
                           GreaterThanMaxBin(values, df_hist.breakpoint))
        hist_cnts == [appended EXCEPT
                         ![1] = @ + LowerThanMinBin(values, bins)]
    IN  Histogram(df_hist.breakpoint, hist_cnts)

compute_histogram_metrics(values, bins) ==
    LET df_hist == PolarsHist(values, bins)
        max_value == SeriesMax(values)
        hist_bins == Append(df_hist.breakpoint, max_value)
        appended == Append(df_hist.count,
                           GreaterThanMaxBin(values, df_hist.breakpoint))
        hist_cnts == [appended EXCEPT
                         ![1] = @ + LowerThanMinBin(values, bins)]
    IN  Histogram(hist_bins, hist_cnts)

\* The element of rank idx (0-based) of the sorted column.
OrderStatistic(values, idx) ==
    CHOOSE v \in Range(values) :
        /\ Cardinality({i \in 1..Len(values) : values[i] < v}) <= idx
        /\ idx < Cardinality({i \in 1..Len(values) : values[i] <= v})

\* pcol.quantile(num/den): polars' default interpolation is "nearest": the
\* order statistic at round((n - 1) * q), halves rounded up; None on an
\* empty column.
PolarsQuantile(values, num, den) ==
    IF values = <<>> THEN None
    ELSE OrderStatistic(values,
                        (2 * (Len(values) - 1) * num + den) \div (2 * den))

\* Sum of the squares of a column.
RECURSIVE SeqSumSq(_)
SeqSumSq(s) == IF s = <<>> THEN 0 ELSE s[1] * s[1] + SeqSumSq(Tail(s))

\* pcol.std(): polars' default is ddof = 1.
StdDdof == 1

\* The square of pcol.std(ddof) as the fraction <<numerator, denominator>>,
\* (n * sum(x^2) - sum(x)^2) / (n * (n - ddof)); None, written <<>>, when
\* the column has no more than ddof values.
\* (PolarsStd_population: ddof = 0.)
PolarsStdSquared(values, ddof) ==
    LET n == Len(values)
    IN  IF n <= ddof THEN <<>>
        ELSE <<n * SeqSumSq(values) - SeqSum(values) * SeqSum(values),
               n * (n - ddof)>>

PolarsStd_population(values) == PolarsStdSquared(values, 0)

PolarsStd(values) == PolarsStdSquared(values, StdDdof)

\* compute_distribution_metrics(df, column): polars aggregates of the
\* column.  min, max, the quantiles and mean are None on an empty column.
\* The mean is kept as the pair <<sum, count>>, None as <<>>; std is kept
\* as its square (see PolarsStdSquared).
compute_distribution_metrics(values) ==
    [count |-> Len(values),
     min |-> SeriesMin(values),
     q05 |-> PolarsQuantile(values, 5, 100),
     q25 |-> PolarsQuantile(values, 25, 100),
     q50 |-> PolarsQuantile(values, 50, 100),
     q75 |-> PolarsQuantile(values, 75, 100),
     q95 |-> PolarsQuantile(values, 95, 100),
     max |-> SeriesMax(values),
     mean |-> IF values = <<>> THEN <<>> ELSE <<SeqSum(values), Len(values)>>,
     std |-> PolarsStd(values)]

\* BaseDistribution: count int; mean, min, the quantiles and max are
\* int | float, so None is rejected; std is int | float | None.
BaseDistributionValid(dist) ==
    /\ dist.min # None
    /\ dist.q05 # None
    /\ dist.q25 # None
    /\ dist.q50 # None
    /\ dist.q75 # None
    /\ dist.q95 # None
    /\ dist.max # None
    /\ dist.mean # <<>>

----------------------------------------------------------------------------
\* The table the request reads (deltalake.DeltaTable behind load_table).

\* Schema of the modelled table: x numeric, t temporal, s text, and p the
\* (integer) partition key.  Text values are numbered in lexicographic
\* order, temporal values are their epoch integers.
DataColumns == {"x", "t", "s"}
PartitionColumns == {"p"}

DType(column) ==
    CASE column = "t" -> "temporal"
      [] column = "s" -> "String"
      [] OTHER -> "numeric"

\* dt.metadata().partition_columns
partition_columns == <<"p">>

\* Per-file statistics of one column: min and max are both missing, or both
\* present with min <= max.
StatCells ==
    {<<None, None>>}
        \cup {c \in (0..MaxVal) \X (0..MaxVal) : c[1] <= c[2]}

\* A partition value, possibly null.
PartitionValues == {None} \cup (0..MaxVal)

\* The requests drawn in Init.
Requests ==
    {<<>>, <<"x">>, <<"t">>, <<"s">>, <<"p">>,
     <<"x", "p">>, <<"p", "t">>, <<"s", "p">>,
     <<"x", "s", "p">>}

\* The add-action rows of a table, restricted to the columns the request
\* names (fill_min_max_values reads no other).
FileStats(cols) ==
    [min_max : [Range(cols) \cap DataColumns -> StatCells],
     partition_values : [Range(cols) \cap PartitionColumns -> PartitionValues]]

\* With more than two columns the first insert into the index raises, so
\* tables of one file show all there is to see.  Of the requests of two
\* columns the one on the text column is drawn on tables of every size,
\* those on the numeric and the temporal column, which the encoding only
\* casts, on tables of one file less.
TableSizes(cols) ==
    IF Len(cols) > 2 THEN 1
    ELSE IF Len(cols) = 2 /\ "s" \notin Range(cols) THEN MaxFiles - 1
    ELSE MaxFiles

Tables(cols) ==
    {[i \in 1..Len(t) |->
         [path |-> i,
          min |-> [c \in DOMAIN t[i].min_max |-> t[i].min_max[c][1]],
          max |-> [c \in DOMAIN t[i].min_max |-> t[i].min_max[c][2]],
          partition_values |-> t[i].partition_values]] :
     t \in SeqsUpTo(FileStats(cols), TableSizes(cols))}

----------------------------------------------------------------------------
\* distribution/core.py

\* pl.col(column_key).top_k_by(by, k=1, reverse): the keys, here the row
\* numbers, a row of the greatest by value has, of the least when reverse
\* is set; which of several such rows is taken is not specified.
top_k_by(by, reverse) ==
    {i \in 1..Len(by) :
        \A j \in 1..Len(by) :
            IF reverse THEN by[i] <= by[j] ELSE by[i] >= by[j]}

\* _get_min_max_items(df, column_key, column_by): the dictionaries it may
\* return; row(0) of a frame of no row raises.
get_min_max_items(by) ==
    IF by = <<>> THEN {[status |-> "OutOfBoundsError"]}
    ELSE {[status |-> "ok", min_item |-> a, max_item |-> b] :
             a \in top_k_by(by, FALSE), b \in top_k_by(by, TRUE)}

----------------------------------------------------------------------------
\* util/table_loader.py

\* The paths of a request: a Delta table, and a path that is none.
Paths == {"table", "nonexistent/path"}

\* load_table(path): the DeltaTable at the path, or the exception raised
\* when there is none.
load_table(p) ==
    IF p = "table" THEN [status |-> "ok"] ELSE [status |-> "TableNotFoundError"]

----------------------------------------------------------------------------
\* util/history.py

\* A Python value that is None or a list.
PyNone == [is_none |-> TRUE, value |-> <<>>]
PyList(l) == [is_none |-> FALSE, value |-> l]

\* The default of the parameter operations.
operations == {"OPTIMIZE", "CREATE TABLE"}

ParamKeys == {"clusterBy", "zOrderBy"}

\* The JSON texts an operation parameter holds; "" is the empty string.
ParamTexts == {"", "[]", "[\"x\"]"}

\* json.loads(text) of a text that is a JSON list of column names.
json_loads(text) ==
    CASE text = "[]" -> <<>>
      [] text = "[\"x\"]" -> <<"x">>
      [] text = "[\"p\"]" -> <<"p">>

\* A commit of the history: its operation and its operationParameters, a
\* dictionary of some of the keys.
Commits ==
    [operation : {"WRITE", "OPTIMIZE", "CREATE TABLE"},
     operationParameters :
         UNION {[K -> ParamTexts] : K \in SUBSET ParamKeys}]

\* A history of the commits h, most recent first, with the commits'
\* timestamps (Unix milliseconds, 1500 apart).
Stamped(h) ==
    [i \in 1..Len(h) |->
        [operation |-> h[i].operation,
         operationParameters |-> h[i].operationParameters,
         timestamp |-> 1500 * (Len(h) - i + 1)]]

\* commit.get("operationParameters", {}).get(param_key): None, written "",
\* when the key is missing (None and "" are both falsy).
GetParam(commit, param_key) ==
    IF param_key \in DOMAIN commit.operationParameters
    THEN commit.operationParameters[param_key]
    ELSE ""

\* The commits of the loop (lines 14-15) that pass the test on operation.
OperationCommits(h) == {i \in 1..Len(h) : h[i].operation \in operations}

\* extract_operation_params(history, param_key): the first commit whose
\* operation is in operations decides: its parameter parsed if it is
\* truthy, None if not.  None when the loop ends.
extract_operation_params(h, param_key) ==
    IF OperationCommits(h) = {} THEN PyNone
    ELSE LET first == CHOOSE i \in OperationCommits(h) :
                          \A j \in OperationCommits(h) : i <= j
             param == GetParam(h[first], param_key)
         IN  IF param # "" THEN PyList(json_loads(param)) ELSE PyNone

\* The histories a table of a request may have.
RequestHistories ==
    {Stamped(h) : h \in
        {<<[operation |-> "WRITE", operationParameters |-> <<>>]>>,
         <<[operation |-> "VACUUM END",
            operationParameters |-> [k \in {"status"} |-> "COMPLETED"]],
           [operation |-> "OPTIMIZE",
            operationParameters |->
                [k \in ParamKeys |-> IF k = "zOrderBy" THEN "[\"x\"]" ELSE "[]"]],
           [operation |-> "WRITE", operationParameters |-> <<>>]>>,
         <<[operation |-> "OPTIMIZE",
            operationParameters |-> [k \in {"zOrderBy"} |-> "[\"x\"]"]],
           [operation |-> "CREATE TABLE",
            operationParameters |-> [k \in {"clusterBy"} |-> "[\"p\"]"]]>>}}

----------------------------------------------------------------------------
\* summary/core.py, summary/model.py

MaxLogLen == 3

\* The statistics of a file: none, or the record count and the min, max
\* and null count of column x.
SummaryStats ==
    {[num_records |-> None, min |-> None, max |-> None, null_count |-> None],
     [num_records |-> 1, min |-> 0, max |-> 1, null_count |-> 0],
     [num_records |-> 2, min |-> 1, max |-> 1, null_count |-> 1]}

\* The files a write adds to a table partitioned by p: a file of p = 0
\* has one byte, a file of p = 1 two.  The file of two records is of
\* p = 1, the others of p = 0.
SummaryFiles ==
    {f \in [stats : SummaryStats, p : 0..1] :
        f.stats.num_records = 2 <=> f.p = 1}

\* The commits of a table: a write that overwrites with no file or one
\* or appends one, an OPTIMIZE that finds nothing to compact, and the end
\* of a VACUUM, completed or failed.
WriteCommits ==
    {c \in [operation : {"WRITE"},
            operationParameters : [{"mode"} -> {"Overwrite", "Append"}],
            files : {<<>>} \cup {<<f>> : f \in SummaryFiles}] :
        c.files = <<>> => c.operationParameters["mode"] = "Overwrite"}

MaintenanceCommits ==
    {[operation |-> "OPTIMIZE",
      operationParameters |->
          [k \in ParamKeys |-> IF k = "zOrderBy" THEN "[\"x\"]" ELSE "[]"],
      files |-> <<>>]}
    \cup
    [operation : {"VACUUM END"},
     operationParameters : [{"status"} -> {"COMPLETED", "FAILED"}],
     files : {<<>>}]

\* The logs of a table: a write creates it.
SummaryLogs ==
    {log \in SeqsUpTo(WriteCommits \cup MaintenanceCommits, MaxLogLen) :
        log # <<>> /\ log[1] \in WriteCommits}

\* dt.version(): the index of the latest commit, the first being 0.
DeltaVersion(log) == Len(log) - 1

\* dt.history(): the commits, most recent first, with their timestamps.
DeltaHistory(log) ==
    Stamped([i \in 1..Len(log) |->
                [operation |-> log[Len(log) - i + 1].operation,
                 operationParameters |->
                     log[Len(log) - i + 1].operationParameters]])

\* The add-action rows of the files the commit of the given version adds.
AddActions(commit, version) ==
    [i \in 1..Len(commit.files) |->
        [path |-> version,
         size_bytes |-> commit.files[i].p + 1,
         num_records |-> commit.files[i].stats.num_records,
         min |-> [c \in {"x"} |-> commit.files[i].stats.min],
         max |-> [c \in {"x"} |-> commit.files[i].stats.max],
         null_count |-> [c \in {"x"} |-> commit.files[i].stats.null_count],
         partition_values |-> [c \in PartitionColumns |-> commit.files[i].p]]]

RECURSIVE Flatten(_)
Flatten(seqs) ==
    IF seqs = <<>> THEN <<>> ELSE Head(seqs) \o Flatten(Tail(seqs))

IsOverwrite(commit) ==
    /\ commit.operation = "WRITE"
    /\ commit.operationParameters["mode"] = "Overwrite"

\* Every file any commit added, removed or not.
GetAddActions_all(log) ==
    Flatten([i \in 1..Len(log) |-> AddActions(log[i], i - 1)])

\* dt.get_add_actions(): the rows of the active files, the ones added and
\* not removed since; an overwrite removes every file before it.
GetAddActions(log) ==
    LET overwrites == {i \in 1..Len(log) : IsOverwrite(log[i])}
        start == IF overwrites = {} THEN 1
                 ELSE CHOOSE i \in overwrites : \A j \in overwrites : j <= i
    IN  Flatten([i \in 1..(Len(log) - start + 1) |->
                    AddActions(log[start + i - 1], start + i - 2)])

\* polars sum, min and max of a column: nulls are skipped; the sum of no
\* value is 0, the min and max of no value are null.
RECURSIVE ColSum(_)
ColSum(col) ==
    IF col = <<>> THEN 0
    ELSE (IF col[1] = None THEN 0 ELSE col[1]) + ColSum(Tail(col))

ColMin(col) ==
    LET S == Range(col) \ {None}
    IN  IF S = {} THEN None ELSE CHOOSE v \in S : \A w \in S : v <= w

ColMax(col) ==
    LET S == Range(col) \ {None}
    IN  IF S = {} THEN None ELSE CHOOSE v \in S : \A w \in S : v >= w

\* _extract_table_statistics(dt, df_add_actions); dt.partitions() are the
\* distinct partition values of the active files.
extract_table_statistics(df) ==
    IF df = <<>>
    THEN [num_files |-> 0, total_size_bytes |-> 0, num_records |-> 0,
          num_partitions |-> 0]
    ELSE [num_files |-> Len(df),
          total_size_bytes |-> ColSum([i \in 1..Len(df) |-> df[i].size_bytes]),
          num_records |-> ColSum([i \in 1..Len(df) |-> df[i].num_records]),
          num_partitions |->
              Cardinality({df[i].partition_values : i \in 1..Len(df)})]

\* _extract_column_statistic(df_add_actions, column).
extract_column_statistic(df, column) ==
    IF column \in DOMAIN df[1].partition_values
    THEN [min |-> ColMin([i \in 1..Len(df) |-> df[i].partition_values[column]]),
          max |-> ColMax([i \in 1..Len(df) |-> df[i].partition_values[column]]),
          null_count |-> 0]
    ELSE [min |-> ColMin([i \in 1..Len(df) |-> df[i].min[column]]),
          max |-> ColMax([i \in 1..Len(df) |-> df[i].max[column]]),
          null_count |-> ColSum([i \in 1..Len(df) |-> df[i].null_count[column]])]

\* _extract_column_statistics(df_add_actions): a dictionary over the fields
\* of the min struct, empty for an empty table.
extract_column_statistics(df) ==
    IF df = <<>> THEN <<>>
    ELSE [column \in DOMAIN df[1].min |-> extract_column_statistic(df, column)]

\* to_datetime(ms) and datetime.fromtimestamp(ms / 1000): seconds and
\* microseconds.
to_datetime(unix_timestamp_ms) ==
    [seconds |-> unix_timestamp_ms \div 1000,
     microseconds |-> (unix_timestamp_ms % 1000) * 1000]

\* A datetime | None with no value.
NoDatetime == [seconds |-> None, microseconds |-> None]

extract_last_commit_timestamp(h) == to_datetime(h[1].timestamp)

extract_last_optimize_timestamp(h) ==
    LET hits == {i \in 1..Len(h) : h[i].operation = "OPTIMIZE"}
    IN  IF hits = {} THEN NoDatetime
        ELSE to_datetime(h[CHOOSE i \in hits : \A j \in hits : i <= j].timestamp)

\* A lookup that takes the first VACUUM END whatever its status.
extract_last_vacuum_timestamp_any_status(h) ==
    LET hits == {i \in 1..Len(h) : h[i].operation = "VACUUM END"}
    IN  IF hits = {} THEN NoDatetime
        ELSE to_datetime(h[CHOOSE i \in hits : \A j \in hits : i <= j].timestamp)

extract_last_vacuum_timestamp(h) ==
    LET hits == {i \in 1..Len(h) :
                    /\ h[i].operation = "VACUUM END"
                    /\ "status" \in DOMAIN h[i].operationParameters
                    /\ h[i].operationParameters["status"] = "COMPLETED"}
    IN  IF hits = {} THEN NoDatetime
        ELSE to_datetime(h[CHOOSE i \in hits : \A j \in hits : i <= j].timestamp)

\* TableSummary(...): clustering_columns and zorder_columns are list[str]
\* and are passed explicitly, so None is rejected.
TableSummary(version, table_stats, column_stats, stamps, clustering, zorder) ==
    IF clustering.is_none \/ zorder.is_none
    THEN [status |-> "ValidationError"]
    ELSE [status |-> "ok",
          version |-> version,
          schema |-> <<"x", "p">>,
          metadata |-> [partition_columns |-> partition_columns],
          table_statistics |-> table_stats,
          column_statistics |-> column_stats,
          last_commit_timestamp |-> stamps.last_commit_timestamp,
          last_vacuum_timestamp |-> stamps.last_vacuum_timestamp,
          last_optimize_timestamp |-> stamps.last_optimize_timestamp,
          clustering_columns |-> clustering.value,
          zorder_columns |-> zorder.value]

----------------------------------------------------------------------------
\* clustering/core.py

\* BINS = list(range(17)) + [32, 64, 128]
BINS == <<0, 1, 2, 3, 4, 5, 6, 7, 8, 9, 10, 11, 12, 13, 14, 15, 16,
          32, 64, 128>>

\* Data frames are sequences of rows [path, row], row being the tuple of the
\* columns after "path" (<c>_min, <c>_max for each requested column c).

\* The two expressions fill_min_max_values builds for one column.
\* (FilledPair_min_only: the partition value is aliased to <c>_min only,
\* <c>_max is read from the max statistics, which have no such field.)
FilledPair_min_only(action, column) ==
    IF column \in Range(partition_columns)
    THEN <<action.partition_values[column], None>>
    ELSE <<action.min[column], action.max[column]>>

FilledPair(action, column) ==
    IF column \in Range(partition_columns)
    THEN <<action.partition_values[column], action.partition_values[column]>>
    ELSE <<action.min[column], action.max[column]>>

RECURSIVE FilledRow(_, _)
FilledRow(action, cols) ==
    IF cols = <<>> THEN <<>>
    ELSE FilledPair(action, Head(cols)) \o FilledRow(action, Tail(cols))

fill_min_max_values(actions, cols) ==
    [i \in 1..Len(actions) |->
        [path |-> actions[i].path, row |-> FilledRow(actions[i], cols)]]

\* Column j (1-based, min at 2j-1 and max at 2j) of a frame, as a set.
ColumnValues(df, pos) == {df[i].row[pos] : i \in 1..Len(df)}

\* The distinct values of a sequence in the order of their first places.
RECURSIVE FirstPlaces(_)
FirstPlaces(sq) ==
    IF sq = <<>> THEN <<>>
    ELSE LET init == FirstPlaces(SubSeq(sq, 1, Len(sq) - 1))
         IN  IF sq[Len(sq)] \in Range(init) THEN init
             ELSE Append(init, sq[Len(sq)])

\* (get_dictionary_encoding_unsorted: unique() without the sort(), the
\* values in the order the files list them.)
get_dictionary_encoding_unsorted(df, j) ==
    FirstPlaces([i \in 1..Len(df) |-> df[i].row[2 * j - 1]]
                \o [i \in 1..Len(df) |-> df[i].row[2 * j]])

\* (get_dictionary_encoding_descending: sort(descending=True).)
get_dictionary_encoding_descending(df, j) ==
    LET key == SortedSeq(ColumnValues(df, 2 * j - 1) \cup ColumnValues(df, 2 * j))
    IN  [i \in 1..Len(key) |-> key[Len(key) - i + 1]]

\* get_dictionary_encoding(df, [col_min, col_max]): the distinct values of
\* both columns, sorted; null is one of the values and sorts first (None is
\* below every value).  The encoding of key[i] is i - 1 (with_row_index).
get_dictionary_encoding(df, j) ==
    SortedSeq(ColumnValues(df, 2 * j - 1) \cup ColumnValues(df, 2 * j))

\* replace_strict(old=key, new=value): the row index of v in key.
ReplaceStrict(v, key) ==
    (CHOOSE i \in 1..Len(key) : key[i] = v) - 1

\* cast(pl.Int64) / cast(pl.Float64): null stays null; the values of the
\* model are exactly representable, the cast keeps them.
Cast(v) == IF v = None THEN None ELSE v

EncodeValue(v, dtype, key) ==
    IF dtype = "String" THEN ReplaceStrict(v, key) ELSE Cast(v)

apply_numerical_encoding(df, cols) ==
    [i \in 1..Len(df) |->
        [path |-> df[i].path,
         row |-> [pos \in 1..(2 * Len(cols)) |->
                    LET j == (pos + 1) \div 2
                    IN  EncodeValue(df[i].row[pos], DType(cols[j]),
                                    get_dictionary_encoding(df, j))]]]

\* pl.any_horizontal(pl.all().is_null()) of one row (path is never null).
HasNull(r) == \E pos \in 1..Len(r.row) : r.row[pos] = None

\* Line 215.
NullCount(df) == Cardinality({i \in 1..Len(df) : HasNull(df[i])})

\* df.drop_nulls()
NotHasNull(r) == ~HasNull(r)

remove_nulls(df) == SelectSeq(df, NotHasNull)

\* rtree: index.Index() is created with the default properties.
Dimension == 2

\* Index.get_coordinate_pointers with interleaved = False: as many
\* coordinates as dimensions are a point; otherwise the even places are the
\* minima and the odd places the maxima, and both must have the index's
\* dimension and mins <= maxs.
GetCoordinatePointers(coordinates) ==
    IF Len(coordinates) = Dimension
    THEN [ok |-> TRUE, mins |-> coordinates, maxs |-> coordinates]
    ELSE LET n == Len(coordinates)
             p == [d \in 1..((n + 1) \div 2) |-> coordinates[2 * d - 1]]
             q == [d \in 1..(n \div 2) |-> coordinates[2 * d]]
         IN  IF /\ Len(p) = Dimension
                /\ Len(q) = Dimension
                /\ \A d \in 1..Dimension : p[d] <= q[d]
             THEN [ok |-> TRUE, mins |-> p, maxs |-> q]
             ELSE [ok |-> FALSE, mins |-> <<>>, maxs |-> <<>>]

\* The R-tree's intersection test of a stored entry and a query region.
\* (RtreeIntersects_strict: touching regions do not intersect.)
RtreeIntersects_strict(e, region) ==
    \A d \in 1..Dimension :
        e.mins[d] < region.maxs[d] /\ e.maxs[d] > region.mins[d]

\* (RtreeIntersects_below: only the lower corner of the entry is tested.)
RtreeIntersects_below(e, region) ==
    \A d \in 1..Dimension : e.mins[d] <= region.maxs[d]

RtreeIntersects(e, region) ==
    \A d \in 1..Dimension :
        e.mins[d] <= region.maxs[d] /\ e.maxs[d] >= region.mins[d]

\* The ids rindex.intersection(coordinates) yields; rindex.count is their
\* number.
RtreeHits(entries, coordinates) ==
    {e.id : e \in {x \in Range(entries) :
                      RtreeIntersects(x, GetCoordinatePointers(coordinates))}}

RtreeCount(entries, coordinates) == Cardinality(RtreeHits(entries, coordinates))

\* compute_overlap_metrics: sums of the boolean columns eq(0) and gt(0).
\* (compute_overlap_metrics_gt1: gt(1) in place of gt(0).)
compute_overlap_metrics_gt1(counts) ==
    [count_no_overlap |-> Cardinality({i \in 1..Len(counts) : counts[i] = 0}),
     count_with_overlap |-> Cardinality({i \in 1..Len(counts) : counts[i] > 1})]

compute_overlap_metrics(counts) ==
    [count_no_overlap |-> Cardinality({i \in 1..Len(counts) : counts[i] = 0}),
     count_with_overlap |-> Cardinality({i \in 1..Len(counts) : counts[i] > 0})]

\* Clustering(...): a BaseDistribution with the overlap counts and the
\* lineage columns.  clustering_columns and zorder_columns are list[str]
\* and are passed explicitly, so the default does not apply and None is
\* rejected.
Clustering(cols, h, nulls, dist, overlap, clustering, zorder) ==
    IF \/ ~BaseDistributionValid(dist)
       \/ clustering.is_none
       \/ zorder.is_none
    THEN [status |-> "ValidationError"]
    ELSE [status |-> "ok",
          analyzed_columns |-> cols,
          partition_columns |-> partition_columns,
          clustering_columns |-> clustering.value,
          zorder_columns |-> zorder.value,
          hist |-> h,
          count_without_min_max |-> nulls,
          count |-> dist.count,
          min |-> dist.min,
          q05 |-> dist.q05,
          q25 |-> dist.q25,
          q50 |-> dist.q50,
          q75 |-> dist.q75,
          q95 |-> dist.q95,
          max |-> dist.max,
          mean |-> dist.mean,
          std |-> dist.std,
          count_no_overlap |-> overlap.count_no_overlap,
          count_with_overlap |-> overlap.count_with_overlap]

\* create_rtree_index(df): the entries of the index, in row order; not ok
\* when an insert raises.
create_rtree_index(df) ==
    IF \E i \in 1..Len(df) : ~GetCoordinatePointers(df[i].row).ok
    THEN [ok |-> FALSE, entries |-> <<>>]
    ELSE [ok |-> TRUE,
          entries |-> [i \in 1..Len(df) |->
                          [id |-> i - 1,
                           mins |-> GetCoordinatePointers(df[i].row).mins,
                           maxs |-> GetCoordinatePointers(df[i].row).maxs,
                           obj |-> df[i].path]]]

\* clustering_health(path, columns) as a function of what load_table and
\* dt.history() return: the report, or the exception.
clustering_health(actions, cols, h) ==
    LET encoded == apply_numerical_encoding(fill_min_max_values(actions, cols),
                                            cols)
        non_nulls == remove_nulls(encoded)
        idx == create_rtree_index(non_nulls)
        counts == [i \in 1..Len(non_nulls) |->
                      RtreeCount(idx.entries, non_nulls[i].row) - 1]
        h_metrics == compute_histogram_metrics(counts, BINS)
    IN  IF ~idx.ok THEN [status |-> "RTreeError"]
        ELSE IF h_metrics.status # "ok" THEN [status |-> h_metrics.status]
        ELSE Clustering(cols, h_metrics, NullCount(encoded),
                        compute_distribution_metrics(counts),
                        compute_overlap_metrics(counts),
                        extract_operation_params(h, "clusterBy"),
                        extract_operation_params(h, "zOrderBy"))

----------------------------------------------------------------------------
\* SpecHist: one call of compute_histogram_metrics.

\* Ascending edge lists with at least two edges, strictly inside the value
\* range, so that values fall below the first and above the last edge.
HistEdges ==
    {SortedSeq(S) : S \in {T \in SUBSET (1..(MaxHistVal - 1)) : Cardinality(T) >= 2}}

\* No table is loaded.
NoTable ==
    /\ path = ""
    /\ loaded = FALSE
    /\ history = <<>>
    /\ clustering_columns = PyNone
    /\ zorder_columns = PyNone

\* No clustering_health request is running.
ClusteringIdle ==
    /\ columns = <<>>
    /\ add_actions = <<>>
    /\ pc = "idle"
    /\ df_filled = <<>>
    /\ df_encoded = <<>>
    /\ null_counts = 0
    /\ df_non_nulls = <<>>
    /\ rindex = <<>>
    /\ cursor = 0
    /\ overlap_counts = <<>>
    /\ metrics_overlap = <<>>
    /\ metrics_distribution = <<>>
    /\ hist = <<>>
    /\ report = <<>>

\* No summary request is running.
SummaryIdle ==
    /\ s_pc = "idle"
    /\ delta_log = <<>>
    /\ df_add_actions = <<>>
    /\ table_statistics = <<>>
    /\ column_statistics = <<>>
    /\ last_timestamps = <<>>
    /\ table_summary = <<>>

\* No pair of requests is running; the module is as imported.
TwoIdle ==
    /\ requests = <<>>
    /\ module_BINS = BINS

HistIdle ==
    /\ TwoIdle
    /\ NoTable
    /\ l_pc = "idle"
    /\ ClusteringIdle
    /\ SummaryIdle

InitHist ==
    /\ h_values \in SeqsUpTo(0..MaxHistVal, MaxHistLen)
    /\ h_bins \in HistEdges
    /\ h_dist = <<>>
    /\ h_hist = <<>>
    /\ h_items = <<>>
    /\ h_pc = "call"
    /\ HistIdle

\* The two helpers are called one after the other on the same column (as
\* in clustering_health, lines 224-230).
CallDistribution ==
    /\ h_pc = "call"
    /\ h_dist' = compute_distribution_metrics(h_values)
    /\ h_pc' = "hist"
    /\ UNCHANGED <<h_values, h_bins, h_hist, h_items, cvars, tvars, dvars, l_pc,
                   svars>>

CallHistogram ==
    /\ h_pc = "hist"
    /\ h_hist' = compute_histogram_metrics(h_values, h_bins)
    /\ h_pc' = "done"
    /\ UNCHANGED <<h_values, h_bins, h_dist, h_items, cvars, tvars, dvars, l_pc,
                   svars>>

\* distribution/core.py, _get_distribution, line 39: the items are taken
\* from the same column after the two helpers.
GetMinMaxItems ==
    /\ h_pc = "done"
    /\ h_items' \in get_min_max_items(h_values)
    /\ h_pc' = "items"
    /\ UNCHANGED <<h_values, h_bins, h_dist, h_hist, cvars, tvars, dvars, l_pc,
                   svars>>

NextHist ==
    \/ CallDistribution
    \/ CallHistogram
    \/ GetMinMaxItems

SpecHist == InitHist /\ [][NextHist]_vars

----------------------------------------------------------------------------
\* SpecHistory: the lineage lookups of a request, on a bounded history.

MaxCommits == 2

InitHistory ==
    /\ h_values = <<>>
    /\ h_bins = <<>>
    /\ h_dist = <<>>
    /\ h_hist = <<>>
    /\ h_items = <<>>
    /\ h_pc = "idle"
    /\ ClusteringIdle
    /\ SummaryIdle
    /\ TwoIdle
    /\ path = "table"
    /\ loaded = TRUE
    /\ history \in {Stamped(h) : h \in SeqsUpTo(Commits, MaxCommits) \ {<<>>}}
    /\ clustering_columns = PyNone
    /\ zorder_columns = PyNone
    /\ l_pc = "clusterBy"

\* clustering/core.py line 233, summary/core.py line 114.
ExtractClusterBy ==
    /\ l_pc = "clusterBy"
    /\ clustering_columns' = extract_operation_params(history, "clusterBy")
    /\ l_pc' = "zOrderBy"
    /\ UNCHANGED <<hvars, cvars, tvars, svars, path, loaded, history, zorder_columns>>

\* clustering/core.py line 234, summary/core.py line 115.
ExtractZOrderBy ==
    /\ l_pc = "zOrderBy"
    /\ zorder_columns' = extract_operation_params(history, "zOrderBy")
    /\ l_pc' = "done"
    /\ UNCHANGED <<hvars, cvars, tvars, svars, path, loaded, history,
                   clustering_columns>>

NextHistory ==
    \/ ExtractClusterBy
    \/ ExtractZOrderBy

SpecHistory == InitHistory /\ [][NextHistory]_vars

----------------------------------------------------------------------------
\* Spec: one clustering_health(path, columns) request.

InitClusteringHealth ==
    /\ h_values = <<>>
    /\ h_bins = <<>>
    /\ h_dist = <<>>
    /\ h_hist = <<>>
    /\ h_items = <<>>
    /\ h_pc = "idle"
    /\ l_pc = "idle"
    /\ SummaryIdle
    /\ TwoIdle
    /\ path \in Paths
    /\ loaded = FALSE
    /\ history = <<>>
    /\ clustering_columns = PyNone
    /\ zorder_columns = PyNone
    /\ columns \in Requests
    /\ add_actions \in (IF path = "table" THEN Tables(columns) ELSE {<<>>})
    /\ pc \in {"command", "fill"}
    /\ df_filled = <<>>
    /\ df_encoded = <<>>
    /\ null_counts = 0
    /\ df_non_nulls = <<>>
    /\ rindex = <<>>
    /\ cursor = 0
    /\ overlap_counts = <<>>
    /\ metrics_overlap = <<>>
    /\ metrics_distribution = <<>>
    /\ hist = <<>>
    /\ report = <<>>

\* A summary(path) request.
InitSummary ==
    /\ h_values = <<>>
    /\ h_bins = <<>>
    /\ h_dist = <<>>
    /\ h_hist = <<>>
    /\ h_items = <<>>
    /\ h_pc = "idle"
    /\ l_pc = "idle"
    /\ ClusteringIdle
    /\ TwoIdle
    /\ path \in Paths
    /\ loaded = FALSE
    /\ history = <<>>
    /\ clustering_columns = PyNone
    /\ zorder_columns = PyNone
    /\ s_pc = "load"
    /\ delta_log \in (IF path = "table" THEN SummaryLogs ELSE {<<>>})
    /\ df_add_actions = <<>>
    /\ table_statistics = <<>>
    /\ column_statistics = <<>>
    /\ last_timestamps = <<>>
    /\ table_summary = <<>>

Init == InitClusteringHealth \/ InitSummary

\* An exception leaves clustering_health: nothing is returned.
Raise(error) ==
    /\ pc' = "done"
    /\ report' = [status |-> error]

\* cli/clustering.py, clustering_command: an empty column list ends the
\* command with typer.Exit(1); otherwise clustering_health is called.
ClusteringCommand ==
    /\ pc = "command"
    /\ IF columns = <<>>
       THEN Raise("Exit")
       ELSE pc' = "fill" /\ UNCHANGED report
    /\ UNCHANGED <<xvars, dvars, columns, add_actions, df_filled, df_encoded,
                   null_counts, df_non_nulls, rindex, cursor, overlap_counts,
                   metrics_overlap, metrics_distribution, hist>>

\* Lines 208-213: load_table, whose exception leaves clustering_health, and
\* fill_min_max_values.
\* (FillMinMaxValues_swallow: a failed load is taken for an empty table.)
FillMinMaxValues_swallow ==
    /\ pc = "fill"
    /\ loaded' = (load_table(path).status = "ok")
    /\ df_filled' = fill_min_max_values(add_actions, columns)
    /\ pc' = "encode"
    /\ UNCHANGED <<xvars, path, history, clustering_columns, zorder_columns,
                   columns, add_actions, df_encoded, null_counts,
                   df_non_nulls, rindex, cursor, overlap_counts,
                   metrics_overlap, metrics_distribution, hist, report>>

FillMinMaxValues ==
    /\ pc = "fill"
    /\ IF load_table(path).status = "ok"
       THEN /\ loaded' = TRUE
            /\ df_filled' = fill_min_max_values(add_actions, columns)
            /\ pc' = "encode"
            /\ UNCHANGED report
       ELSE /\ Raise(load_table(path).status)
            /\ UNCHANGED <<loaded, df_filled>>
    /\ UNCHANGED <<xvars, path, history, clustering_columns, zorder_columns,
                   columns, add_actions, df_encoded, null_counts,
                   df_non_nulls, rindex, cursor, overlap_counts,
                   metrics_overlap, metrics_distribution, hist>>

\* Line 214.
ApplyNumericalEncoding ==
    /\ pc = "encode"
    /\ df_encoded' = apply_numerical_encoding(df_filled, columns)
    /\ pc' = "nulls"
    /\ UNCHANGED <<xvars, dvars, columns, add_actions, df_filled, null_counts,
                   df_non_nulls, rindex, cursor, overlap_counts,
                   metrics_overlap, metrics_distribution, hist, report>>

\* Lines 215-216, and the creation of the empty index (lines 146-147).
RemoveNulls ==
    /\ pc = "nulls"
    /\ null_counts' = NullCount(df_encoded)
    /\ df_non_nulls' = remove_nulls(df_encoded)
    /\ rindex' = <<>>
    /\ cursor' = 1
    /\ pc' = "insert"
    /\ UNCHANGED <<xvars, dvars, columns, add_actions, df_filled, df_encoded,
                   overlap_counts, metrics_overlap, metrics_distribution,
                   hist, report>>

\* Lines 149-150: one turn of the loop, rindex.insert(idx, row[1:], row[0]).
RtreeInsert ==
    /\ pc = "insert"
    /\ cursor <= Len(df_non_nulls)
    /\ LET r == df_non_nulls[cursor]
           region == GetCoordinatePointers(r.row)
       IN  IF region.ok
           THEN /\ rindex' = Append(rindex, [id |-> cursor - 1,
                                              mins |-> region.mins,
                                              maxs |-> region.maxs,
                                              obj |-> r.path])
                /\ cursor' = cursor + 1
                /\ UNCHANGED <<pc, report>>
           ELSE /\ Raise("RTreeError")
                /\ UNCHANGED <<rindex, cursor>>
    /\ UNCHANGED <<xvars, dvars, columns, add_actions, df_filled, df_encoded,
                   null_counts, df_non_nulls, overlap_counts, metrics_overlap,
                   metrics_distribution, hist>>

\* Line 152: the loop is over, create_rtree_index returns.
\* (CreateRtreeIndexReturn_early: the return is inside the loop.)
CreateRtreeIndexReturn_early ==
    /\ pc = "insert"
    /\ cursor > 1 \/ cursor > Len(df_non_nulls)
    /\ pc' = "count"
    /\ cursor' = 1
    /\ overlap_counts' = <<>>
    /\ UNCHANGED <<xvars, dvars, columns, add_actions, df_filled, df_encoded,
                   null_counts, df_non_nulls, rindex, metrics_overlap,
                   metrics_distribution, hist, report>>

CreateRtreeIndexReturn ==
    /\ pc = "insert"
    /\ cursor > Len(df_non_nulls)
    /\ pc' = "count"
    /\ cursor' = 1
    /\ overlap_counts' = <<>>
    /\ UNCHANGED <<xvars, dvars, columns, add_actions, df_filled, df_encoded,
                   null_counts, df_non_nulls, rindex, metrics_overlap,
                   metrics_distribution, hist, report>>

\* Line 171: one element of the comprehension, rindex.count(row) - 1.
RtreeCountRow ==
    /\ pc = "count"
    /\ cursor <= Len(df_non_nulls)
    /\ overlap_counts' =
           Append(overlap_counts, RtreeCount(rindex, df_non_nulls[cursor].row) - 1)
    /\ cursor' = cursor + 1
    /\ UNCHANGED <<xvars, dvars, columns, add_actions, pc, df_filled, df_encoded,
                   null_counts, df_non_nulls, rindex, metrics_overlap,
                   metrics_distribution, hist, report>>

\* Lines 173, 223-226: the counts become a column; overlap and distribution
\* metrics are computed from it.
ComputeMetrics ==
    /\ pc = "count"
    /\ cursor > Len(df_non_nulls)
    /\ metrics_overlap' = compute_overlap_metrics(overlap_counts)
    /\ metrics_distribution' = compute_distribution_metrics(overlap_counts)
    /\ pc' = "hist"
    /\ UNCHANGED <<xvars, dvars, columns, add_actions, df_filled, df_encoded,
                   null_counts, df_non_nulls, rindex, cursor, overlap_counts,
                   hist, report>>

\* Lines 228-230: compute_histogram_metrics, whose Histogram(...) may raise.
ComputeHistogram ==
    /\ pc = "hist"
    /\ LET h == compute_histogram_metrics(overlap_counts, BINS)
       IN  IF h.status = "ok"
           THEN /\ hist' = h
                /\ pc' = "report"
                /\ UNCHANGED report
           ELSE /\ Raise(h.status)
                /\ UNCHANGED hist
    /\ UNCHANGED <<xvars, dvars, columns, add_actions, df_filled, df_encoded,
                   null_counts, df_non_nulls, rindex, cursor, overlap_counts,
                   metrics_overlap, metrics_distribution>>

\* Lines 232-247: the history is read, the lineage columns are extracted,
\* the Clustering model is built and returned.
ReturnClustering ==
    /\ pc = "report"
    /\ \E h \in RequestHistories :
           /\ history' = h
           /\ clustering_columns' = extract_operation_params(h, "clusterBy")
           /\ zorder_columns' = extract_operation_params(h, "zOrderBy")
    /\ LET r == Clustering(columns, hist, null_counts, metrics_distribution,
                           metrics_overlap, clustering_columns', zorder_columns')
       IN  report' = r
    /\ pc' = "done"
    /\ UNCHANGED <<xvars, path, loaded, columns, add_actions, df_filled, df_encoded,
                   null_counts, df_non_nulls, rindex, cursor, overlap_counts,
                   metrics_overlap, metrics_distribution, hist>>

\* summary, lines 97-105: load_table, whose exception leaves summary; the
\* version, schema and metadata of the snapshot, whose log dt.history()
\* returns, and the add actions are read.
SummaryLoad ==
    /\ s_pc = "load"
    /\ IF load_table(path).status = "ok"
       THEN /\ loaded' = TRUE
            /\ history' = DeltaHistory(delta_log)
            /\ df_add_actions' = GetAddActions(delta_log)
            /\ s_pc' = "statistics"
            /\ UNCHANGED table_summary
       ELSE /\ table_summary' = [status |-> load_table(path).status]
            /\ s_pc' = "done"
            /\ UNCHANGED <<loaded, history, df_add_actions>>
    /\ UNCHANGED <<hvars, cvars, tvars, l_pc, path, clustering_columns,
                   zorder_columns, delta_log, table_statistics,
                   column_statistics, last_timestamps>>

\* summary, lines 107-108.
SummaryStatistics ==
    /\ s_pc = "statistics"
    /\ table_statistics' = extract_table_statistics(df_add_actions)
    /\ column_statistics' = extract_column_statistics(df_add_actions)
    /\ s_pc' = "timestamps"
    /\ UNCHANGED <<hvars, cvars, tvars, l_pc, dvars, delta_log, df_add_actions,
                   last_timestamps, table_summary>>

\* summary, lines 110-113: the timestamps of the last commit, the last
\* completed vacuum and the last optimize.
SummaryTimestamps ==
    /\ s_pc = "timestamps"
    /\ last_timestamps' =
           [last_commit_timestamp |-> extract_last_commit_timestamp(history),
            last_vacuum_timestamp |-> extract_last_vacuum_timestamp(history),
            last_optimize_timestamp |->
                extract_last_optimize_timestamp(history)]
    /\ s_pc' = "lineage"
    /\ UNCHANGED <<hvars, cvars, tvars, l_pc, dvars, delta_log, df_add_actions,
                   table_statistics, column_statistics, table_summary>>

\* summary, lines 114-130: the lineage columns are taken from the history
\* and the TableSummary is built and returned.
SummaryReturn ==
    /\ s_pc = "lineage"
    /\ clustering_columns' = extract_operation_params(history, "clusterBy")
    /\ zorder_columns' = extract_operation_params(history, "zOrderBy")
    /\ table_summary' = TableSummary(DeltaVersion(delta_log), table_statistics,
                                     column_statistics, last_timestamps,
                                     clustering_columns', zorder_columns')
    /\ s_pc' = "done"
    /\ UNCHANGED <<hvars, cvars, tvars, l_pc, path, loaded, history, delta_log,
                   df_add_actions, table_statistics, column_statistics,
                   last_timestamps>>

Next ==
    \/ SummaryLoad
    \/ SummaryStatistics
    \/ SummaryTimestamps
    \/ SummaryReturn
    \/ ClusteringCommand
    \/ FillMinMaxValues
    \/ ApplyNumericalEncoding
    \/ RemoveNulls
    \/ RtreeInsert
    \/ CreateRtreeIndexReturn
    \/ RtreeCountRow
    \/ ComputeMetrics
    \/ ComputeHistogram
    \/ ReturnClustering

Spec == Init /\ [][Next]_vars

----------------------------------------------------------------------------
\* Two clustering_health requests in one process.  Each request has its
\* own locals; what the module holds is shared.  A step is one statement
\* of clustering_health (lines 208-247), and the steps of the two requests
\* interleave freely.

MaxTwoFiles == 1

\* The requests of the pair: on the text column or the partition column
\* of a table of files with values up to 1.
TwoInputs ==
    UNION {{[columns |-> cols,
             add_actions |->
                 [i \in 1..Len(t) |->
                     [path |-> i,
                      min |-> [c \in DOMAIN t[i].min_max |-> t[i].min_max[c][1]],
                      max |-> [c \in DOMAIN t[i].min_max |-> t[i].min_max[c][2]],
                      partition_values |-> t[i].partition_values]]] :
            t \in SeqsUpTo(
                     [min_max : [Range(cols) \cap DataColumns ->
                                    {<<None, None>>, <<0, 0>>, <<0, 1>>, <<1, 1>>}],
                      partition_values : [Range(cols) \cap PartitionColumns ->
                                             {None, 0, 1}]],
                     MaxTwoFiles)} :
           cols \in {<<"s">>, <<"p">>}}

\* The locals of a request that has not begun.
TwoLocals(input) ==
    [pc |-> "fill",
     columns |-> input.columns,
     add_actions |-> input.add_actions,
     df_filled |-> <<>>,
     df_encoded |-> <<>>,
     null_counts |-> 0,
     df_non_nulls |-> <<>>,
     rindex |-> <<>>,
     overlap_counts |-> <<>>,
     metrics_overlap |-> <<>>,
     metrics_distribution |-> <<>>,
     hist |-> <<>>,
     history |-> <<>>,
     report |-> <<>>]

InitTwo ==
    /\ h_values = <<>>
    /\ h_bins = <<>>
    /\ h_dist = <<>>
    /\ h_hist = <<>>
    /\ h_items = <<>>
    /\ h_pc = "idle"
    /\ l_pc = "idle"
    /\ NoTable
    /\ ClusteringIdle
    /\ SummaryIdle
    /\ requests \in [1..2 -> {TwoLocals(input) : input \in TwoInputs}]
    /\ module_BINS = BINS

\* The other variables of a step of the pair.
TwoFrame == UNCHANGED <<hvars, cvars, dvars, l_pc, svars>>

\* Lines 208-213.
TwoFill(r) ==
    /\ requests[r].pc = "fill"
    /\ requests' = [requests EXCEPT
           ![r].df_filled = fill_min_max_values(requests[r].add_actions,
                                                requests[r].columns),
           ![r].pc = "encode"]
    /\ UNCHANGED module_BINS
    /\ TwoFrame

\* Line 214.
TwoEncode(r) ==
    /\ requests[r].pc = "encode"
    /\ requests' = [requests EXCEPT
           ![r].df_encoded = apply_numerical_encoding(requests[r].df_filled,
                                                      requests[r].columns),
           ![r].pc = "nulls"]
    /\ UNCHANGED module_BINS
    /\ TwoFrame

\* Lines 215-216.
TwoRemoveNulls(r) ==
    /\ requests[r].pc = "nulls"
    /\ requests' = [requests EXCEPT
           ![r].null_counts = NullCount(requests[r].df_encoded),
           ![r].df_non_nulls = remove_nulls(requests[r].df_encoded),
           ![r].pc = "insert"]
    /\ UNCHANGED module_BINS
    /\ TwoFrame

\* Line 218: create_rtree_index, whose insert may raise.
TwoCreateRtreeIndex(r) ==
    /\ requests[r].pc = "insert"
    /\ LET idx == create_rtree_index(requests[r].df_non_nulls)
       IN  requests' =
               IF idx.ok
               THEN [requests EXCEPT ![r].rindex = idx.entries,
                                     ![r].pc = "count"]
               ELSE [requests EXCEPT ![r].report = [status |-> "RTreeError"],
                                     ![r].pc = "done"]
    /\ UNCHANGED module_BINS
    /\ TwoFrame

\* Lines 219-221.
TwoCount(r) ==
    /\ requests[r].pc = "count"
    /\ requests' = [requests EXCEPT
           ![r].overlap_counts =
               [i \in 1..Len(requests[r].df_non_nulls) |->
                   RtreeCount(requests[r].rindex,
                              requests[r].df_non_nulls[i].row) - 1],
           ![r].pc = "metrics"]
    /\ UNCHANGED module_BINS
    /\ TwoFrame

\* Lines 223-226.
TwoComputeMetrics(r) ==
    /\ requests[r].pc = "metrics"
    /\ requests' = [requests EXCEPT
           ![r].metrics_overlap =
               compute_overlap_metrics(requests[r].overlap_counts),
           ![r].metrics_distribution =
               compute_distribution_metrics(requests[r].overlap_counts),
           ![r].pc = "hist"]
    /\ UNCHANGED module_BINS
    /\ TwoFrame

\* Lines 228-230: compute_histogram_metrics with the module's BINS; the
\* edge is appended to hist_bins, a list of its own.
\* (TwoComputeHistogram_shared: the edge is appended to bins itself.)
TwoComputeHistogram_shared(r) ==
    /\ requests[r].pc = "hist"
    /\ LET h == compute_histogram_metrics(requests[r].overlap_counts,
                                          module_BINS)
       IN  requests' =
               IF h.status = "ok"
               THEN [requests EXCEPT ![r].hist = h, ![r].pc = "report"]
               ELSE [requests EXCEPT ![r].report = [status |-> h.status],
                                     ![r].pc = "done"]
    /\ module_BINS' = Append(module_BINS,
                             SeriesMax(requests[r].overlap_counts))
    /\ TwoFrame

TwoComputeHistogram(r) ==
    /\ requests[r].pc = "hist"
    /\ LET h == compute_histogram_metrics(requests[r].overlap_counts,
                                          module_BINS)
       IN  requests' =
               IF h.status = "ok"
               THEN [requests EXCEPT ![r].hist = h, ![r].pc = "report"]
               ELSE [requests EXCEPT ![r].report = [status |-> h.status],
                                     ![r].pc = "done"]
    /\ UNCHANGED module_BINS
    /\ TwoFrame

\* Lines 232-247.
TwoReturn(r) ==
    /\ requests[r].pc = "report"
    /\ \E h \in RequestHistories :
           requests' = [requests EXCEPT
               ![r].history = h,
               ![r].report =
                   Clustering(requests[r].columns, requests[r].hist,
                              requests[r].null_counts,
                              requests[r].metrics_distribution,
                              requests[r].metrics_overlap,
                              extract_operation_params(h, "clusterBy"),
                              extract_operation_params(h, "zOrderBy")),
               ![r].pc = "done"]
    /\ UNCHANGED module_BINS
    /\ TwoFrame

NextTwo ==
    \E r \in 1..2 :
        \/ TwoFill(r)
        \/ TwoEncode(r)
        \/ TwoRemoveNulls(r)
        \/ TwoCreateRtreeIndex(r)
        \/ TwoCount(r)
        \/ TwoComputeMetrics(r)
        \/ TwoComputeHistogram(r)
        \/ TwoReturn(r)

SpecTwo == InitTwo /\ [][NextTwo]_vars

----------------------------------------------------------------------------
\* Properties of clustering_health (checked under Spec).

Returned == pc = "done" /\ report.status = "ok"

\* Every indexed file has its overlap_count.
Counted ==
    /\ loaded
    /\ pc \in {"hist", "report", "done"}
    /\ Len(overlap_counts) = Len(df_non_nulls)

\* C1: the report's count_no_overlap + count_with_overlap +
\* count_without_min_max equals the number of active files of the table.
C1_CountsSumToTotalFiles ==
    Returned =>
        report.count_no_overlap + report.count_with_overlap
            + report.count_without_min_max = Len(add_actions)

C1_Witness ==
    /\ Returned
    /\ report.count_without_min_max > 0
    /\ report.count_with_overlap + report.count_no_overlap > 0

\* The reference of the overlap contract: the number of other rows B of df
\* with B.low[d] <= A.high[d] and B.high[d] >= A.low[d] in each of the k
\* analyzed dimensions, A being row i.
BruteForceOverlapCount(df, i, k) ==
    Cardinality({j \in (1..Len(df)) \ {i} :
        \A d \in 1..k :
            /\ df[j].row[2 * d - 1] <= df[i].row[2 * d]
            /\ df[j].row[2 * d] >= df[i].row[2 * d - 1]})

\* C2: for any number k >= 1 of analyzed columns the overlap_count of every
\* indexed file equals the brute-force pairwise count of the other files
\* whose ranges intersect it in every dimension (inclusive bounds).
C2_OverlapCountIsBruteForce ==
    Counted =>
        \A i \in 1..Len(df_non_nulls) :
            overlap_counts[i] = BruteForceOverlapCount(df_non_nulls, i, Len(columns))

\* C3: the index query for an indexed file's own box counts that file, so
\* its overlap_count (the query count minus 1) is the number of other files
\* the query finds, and is not negative.
C3_OwnBoxCountedAndExcluded ==
    \A i \in 1..Len(overlap_counts) :
        LET hits == RtreeHits(rindex, df_non_nulls[i].row)
        IN  /\ (i - 1) \in hits
            /\ overlap_counts[i] = Cardinality(hits \ {i - 1})
            /\ overlap_counts[i] >= 0

C3_Witness ==
    /\ Returned
    /\ Len(columns) = 2
    /\ \E i \in 1..Len(overlap_counts) :
          /\ overlap_counts[i] > 0
          /\ RtreeHits(rindex, df_non_nulls[i].row) = {0, 1}

\* C9: when no indexable file remains, clustering_health still returns a
\* report, with count 0, count_no_overlap 0 and count_with_overlap 0.
C9_EmptyIndexStillReports ==
    (pc = "done" /\ loaded /\ columns # <<>> /\ df_non_nulls = <<>>) =>
        /\ report.status = "ok"
        /\ report.count = 0
        /\ report.count_no_overlap = 0
        /\ report.count_with_overlap = 0

\* File i of the table lacks a min or a max for a requested column.
MissingMinMax(i) ==
    \E pos \in 1..(2 * Len(columns)) :
        FilledRow(add_actions[i], columns)[pos] = None

\* C10: whatever the type of the requested columns, a file whose min or max
\* is missing for a requested column is not inserted into the index, gets no
\* overlap_count, and is counted exactly once in count_without_min_max.
C10_MissingMinMaxExcluded ==
    pc \in {"insert", "count", "hist", "report", "done"} =>
        /\ \A i \in 1..Len(add_actions) :
              MissingMinMax(i) =>
                  /\ \A j \in 1..Len(df_non_nulls) : df_non_nulls[j].path # i
                  /\ \A j \in 1..Len(rindex) : rindex[j].obj # i
        /\ null_counts = Cardinality({i \in 1..Len(add_actions) : MissingMinMax(i)})

\* The dictionary of text column j holds the values of df_filled's min and
\* max columns; the rank of a value is the number of values below it.
TextRank(j, v) ==
    Cardinality({w \in (ColumnValues(df_filled, 2 * j - 1)
                        \cup ColumnValues(df_filled, 2 * j)) \ {None} : w < v})

\* C11: the encoding of a text column maps every distinct min or max value
\* of the column to its rank among them, the least value to 0, so that the
\* order of the values is the order of the ranks.
C11_TextRanksDenseFromZero ==
    (loaded /\ pc \in {"nulls", "insert", "count", "hist", "report", "done"}) =>
        \A j \in 1..Len(columns) :
            DType(columns[j]) = "String" =>
                \A i \in 1..Len(df_filled) :
                    \A pos \in {2 * j - 1, 2 * j} :
                        df_filled[i].row[pos] # None =>
                            df_encoded[i].row[pos]
                                = TextRank(j, df_filled[i].row[pos])

\* The table with its files listed in another order.
Reordered(actions, perm) == [i \in 1..Len(actions) |-> actions[perm[i]]]

\* C16: the report a request returned is what clustering_health returns for
\* the same table, columns and history, in whatever order the files are
\* listed and inserted into the index.
C16_ReportIndependentOfFileOrder ==
    Returned =>
        \A perm \in Permutations(1..Len(add_actions)) :
            clustering_health(Reordered(add_actions, perm), columns, history)
                = report

C16_Witness ==
    /\ Returned
    /\ Len(add_actions) = 2
    /\ add_actions[1].min # add_actions[2].min
    /\ report.count_with_overlap = 2

\* C17: once the files are counted (the index, the counts and the overlap
\* metrics do not change afterwards), the files the index query of file A
\* finds include B exactly when those of B include A; the overlap counts
\* sum to an even number and count_with_overlap is never 1.
C17_OverlapSymmetric ==
    (Counted /\ pc = "hist") =>
        /\ \A i, j \in 1..Len(df_non_nulls) :
              ((j - 1) \in RtreeHits(rindex, df_non_nulls[i].row))
                  <=> ((i - 1) \in RtreeHits(rindex, df_non_nulls[j].row))
        /\ SeqSum(overlap_counts) % 2 = 0
        /\ metrics_overlap.count_with_overlap # 1

C17_Witness ==
    /\ Counted
    /\ pc = "hist"
    /\ Len(columns) = 2
    /\ Len(df_non_nulls) = 2
    /\ df_non_nulls[1].row # df_non_nulls[2].row
    /\ 1 \in RtreeHits(rindex, df_non_nulls[1].row)
    /\ metrics_overlap.count_with_overlap = 2

----------------------------------------------------------------------------
\* Properties of compute_histogram_metrics (checked under SpecHist).

HistDone == h_pc = "done"

NumBelow(values, e) == Cardinality({i \in 1..Len(values) : values[i] < e})
NumAtLeast(values, e) == Cardinality({i \in 1..Len(values) : values[i] >= e})
NumBetween(values, lo, hi) ==
    Cardinality({i \in 1..Len(values) : lo <= values[i] /\ values[i] < hi})

\* C4: for a non-empty value sequence the counts of the histogram sum to the
\* number of values.
C4_CountsSumToNumberOfValues ==
    (HistDone /\ h_values # <<>>) => SeqSum(h_hist.cnts) = Len(h_values)

\* C5: for n >= 2 edges the histogram has n bins and n counts.
C5_BinsAndCountsHaveLenOfEdges ==
    HistDone =>
        /\ Len(h_hist.bins) = Len(h_bins)
        /\ Len(h_hist.cnts) = Len(h_bins)

C5_Witness ==
    /\ HistDone
    /\ h_hist.status = "ok"
    /\ Len(h_bins) >= 3
    /\ Len(h_hist.cnts) = Len(h_bins)

\* C6: the base buckets are left-closed and right-open: with every value in
\* [e(1), e(n)), base bucket i counts exactly the values v with
\* e(i) <= v < e(i+1), so that a value equal to an interior edge is counted
\* in the bucket that starts at it.
C6_BaseBucketsLeftClosedRightOpen ==
    (/\ HistDone
     /\ \A i \in 1..Len(h_values) :
            h_bins[1] <= h_values[i] /\ h_values[i] < h_bins[Len(h_bins)]) =>
        \A j \in 1..(Len(h_bins) - 1) :
            h_hist.cnts[j] = NumBetween(h_values, h_bins[j], h_bins[j + 1])

\* The values of a sequence that are at least / less than e, in order.
RECURSIVE KeepAtLeast(_, _)
KeepAtLeast(values, e) ==
    IF values = <<>> THEN <<>>
    ELSE (IF Head(values) >= e THEN <<Head(values)>> ELSE <<>>)
             \o KeepAtLeast(Tail(values), e)

RECURSIVE KeepBelow(_, _)
KeepBelow(values, e) ==
    IF values = <<>> THEN <<>>
    ELSE (IF Head(values) < e THEN <<Head(values)>> ELSE <<>>)
             \o KeepBelow(Tail(values), e)

\* C7: every value below the first edge adds exactly one to the first
\* bucket's count and nothing to any other count: against the histogram of
\* the remaining values, the first count grows by their number and the other
\* counts are the same.
C7_BelowFirstEdgeFoldedOnce ==
    HistDone =>
        LET rest == compute_histogram_metrics(KeepAtLeast(h_values, h_bins[1]), h_bins)
        IN  \A j \in 1..Len(h_bins) :
                h_hist.cnts[j] =
                    rest.cnts[j]
                        + (IF j = 1 THEN NumBelow(h_values, h_bins[1]) ELSE 0)

C7_Witness ==
    /\ HistDone
    /\ NumBelow(h_values, h_bins[1]) >= 2
    /\ NumAtLeast(h_values, h_bins[1]) >= 1

\* C8: exactly one bucket is appended; its count is the number of values
\* >= e(n), its edge the maximum observed value, and the values it counts are
\* in no base bucket (the base counts are those of the values below e(n)).
C8_OverflowBucket ==
    (HistDone /\ h_values # <<>>) =>
        LET n == Len(h_bins)
            below == compute_histogram_metrics(KeepBelow(h_values, h_bins[n]), h_bins)
        IN  /\ Len(h_hist.bins) = n
            /\ Len(h_hist.cnts) = n
            /\ h_hist.bins[n] = SeriesMax(h_values)
            /\ h_hist.cnts[n] = NumAtLeast(h_values, h_bins[n])
            /\ \A j \in 1..(n - 1) : h_hist.cnts[j] = below.cnts[j]

----------------------------------------------------------------------------
\* Properties of compute_distribution_metrics (checked under SpecHist).

DistDone == h_pc \in {"hist", "done"}

\* Sum of (n * x - sum(x))^2 over the column: n^2 times the sum of the
\* squared deviations from the mean.
RECURSIVE SumSqDev(_, _, _)
SumSqDev(s, n, total) ==
    IF s = <<>> THEN 0
    ELSE (n * s[1] - total) * (n * s[1] - total) + SumSqDev(Tail(s), n, total)

\* std^2 = SumSqDev / (n^2 * divisor), as an equation between integers.
StdIsRootOfMeanSquare(std, values, divisor) ==
    LET n == Len(values)
    IN  std[1] * n * n * divisor = SumSqDev(values, n, SeqSum(values)) * std[2]

C19_StdNullBelowTwoValues ==
    DistDone =>
        /\ (h_dist.std = <<>>) <=> (Len(h_values) < 2)
        /\ h_dist.std # <<>> => (h_dist.std[1] >= 0 /\ h_dist.std[2] > 0)
        /\ Len(h_values) = 1 => BaseDistributionValid(h_dist)

C19_Witness ==
    /\ DistDone
    /\ Len(h_values) = 1
    /\ h_dist.std = <<>>
    /\ h_dist.count = 1

\* den times the quantile num/den of the column by linear interpolation
\* between the order statistics around (n - 1) * num / den.
LinearQuantileTimes(values, num, den) ==
    LET pos == (Len(values) - 1) * num
        lo == OrderStatistic(values, pos \div den)
        hi == IF pos % den = 0 THEN lo
              ELSE OrderStatistic(values, pos \div den + 1)
    IN  den * lo + (pos % den) * (hi - lo)

\* C20: q05, q25, q50, q75 and q95 are linear interpolations between
\* adjacent order statistics.
C20_QuantilesLinearlyInterpolated ==
    (DistDone /\ h_values # <<>>) =>
        /\ 100 * h_dist.q05 = LinearQuantileTimes(h_values, 5, 100)
        /\ 100 * h_dist.q25 = LinearQuantileTimes(h_values, 25, 100)
        /\ 100 * h_dist.q50 = LinearQuantileTimes(h_values, 50, 100)
        /\ 100 * h_dist.q75 = LinearQuantileTimes(h_values, 75, 100)
        /\ 100 * h_dist.q95 = LinearQuantileTimes(h_values, 95, 100)

----------------------------------------------------------------------------
\* Properties of extract_operation_params (checked under SpecHistory).

\* The commits that carry a non-empty value for the key and whose operation
\* is OPTIMIZE or CREATE TABLE.
Carriers(h, param_key) ==
    {i \in 1..Len(h) : /\ h[i].operation \in {"OPTIMIZE", "CREATE TABLE"}
                       /\ param_key \in DOMAIN h[i].operationParameters
                       /\ h[i].operationParameters[param_key] # ""}

MostRecentCarrier(h, param_key) ==
    CHOOSE i \in Carriers(h, param_key) : \A j \in Carriers(h, param_key) : i <= j

\* What the request got for the key.
Extracted(param_key) ==
    IF param_key = "clusterBy" THEN clustering_columns ELSE zorder_columns

\* C12: the value returned for a key is the one of the most recent OPTIMIZE
\* or CREATE TABLE commit that carries a non-empty value for the key,
\* whatever the more recent commits are.
C12_MostRecentCarrierDecides ==
    \A k \in ParamKeys :
        (l_pc = "done" /\ Carriers(history, k) # {}) =>
            /\ ~Extracted(k).is_none
            /\ Extracted(k).value =
                   json_loads(history[MostRecentCarrier(history, k)]
                                  .operationParameters[k])

----------------------------------------------------------------------------
\* Lineage in the report of clustering_health (checked under Spec).

\* C13: when no commit of the history carries the key, the request
\* completes and reports the empty list for it.
C13_AbsentLineageIsEmptyList ==
    /\ (pc = "done" /\ history # <<>>) =>
           /\ Carriers(history, "clusterBy") = {} =>
                  (report.status = "ok" /\ report.clustering_columns = <<>>)
           /\ Carriers(history, "zOrderBy") = {} =>
                  (report.status = "ok" /\ report.zorder_columns = <<>>)
    /\ (s_pc = "done" /\ history # <<>>) =>
           /\ Carriers(history, "clusterBy") = {} =>
                  /\ table_summary.status = "ok"
                  /\ table_summary.clustering_columns = <<>>
           /\ Carriers(history, "zOrderBy") = {} =>
                  /\ table_summary.status = "ok"
                  /\ table_summary.zorder_columns = <<>>

----------------------------------------------------------------------------
\* Requests that are refused (checked under Spec).

\* C14: a request with no columns loads no table, whether it comes through
\* clustering_command or is a call of clustering_health.
C14_ZeroColumnsLoadNothing ==
    (columns = <<>> /\ pc # "idle") => ~loaded

\* C15: when load_table fails, the request ends with that exception:
\* clustering_health runs no later phase and returns no report, and summary
\* computes no statistics and returns no summary.
C15_LoadFailurePropagates ==
    load_table(path).status # "ok" =>
        /\ ~loaded
        /\ pc \in {"idle", "command", "fill", "done"}
        /\ pc = "done" => report.status \in {load_table(path).status, "Exit"}
        /\ df_filled = <<>> /\ df_encoded = <<>> /\ rindex = <<>>
        /\ overlap_counts = <<>> /\ metrics_distribution = <<>> /\ hist = <<>>
        /\ s_pc \in {"idle", "load", "done"}
        /\ s_pc = "done" => table_summary.status = load_table(path).status
        /\ table_statistics = <<>> /\ column_statistics = <<>>

C15_Witness ==
    /\ load_table(path).status # "ok"
    /\ \/ pc = "done" /\ columns # <<>> /\ report.status = "TableNotFoundError"
       \/ s_pc = "done" /\ table_summary.status = "TableNotFoundError"

----------------------------------------------------------------------------
\* The boxes of the files (checked under Spec).

\* C25: a file whose statistics have min <= max in a requested column has
\* encoded low <= encoded high in that dimension, whatever the column's
\* type, and every entry of the finished index has mins <= maxs.
C25_EncodedBoxesWellFormed ==
    /\ (loaded /\ pc = "nulls") =>
           \A i \in 1..Len(df_filled) : \A j \in 1..Len(columns) :
               LET low == df_filled[i].row[2 * j - 1]
                   high == df_filled[i].row[2 * j]
               IN  (low # None /\ high # None /\ low <= high) =>
                       df_encoded[i].row[2 * j - 1] <= df_encoded[i].row[2 * j]
    /\ (loaded /\ pc = "count" /\ cursor = 1) =>
           \A e \in 1..Len(rindex) : \A d \in 1..Dimension :
               rindex[e].mins[d] <= rindex[e].maxs[d]

C25_Witness ==
    /\ loaded
    /\ pc = "count"
    /\ cursor = 1
    /\ columns = <<"s", "p">>
    /\ Len(rindex) = 2
    /\ \E i \in 1..Len(df_filled) :
          /\ df_filled[i].row[1] # None
          /\ df_filled[i].row[1] < df_filled[i].row[2]
          /\ df_encoded[i].row[1] < df_encoded[i].row[2]

\* The place of the partition column p among the requested columns, 0 when
\* it is not requested.
PartitionPlace ==
    IF \E j \in 1..Len(columns) : columns[j] = "p"
    THEN CHOOSE j \in 1..Len(columns) : columns[j] = "p"
    ELSE 0

\* C26: for a requested partition column the filled min and max of a file
\* are both its partition value, so that the encoded range has no width,
\* and two indexed files can only be found overlapping when their
\* partition values are equal; when the partition column is the only one
\* requested they overlap exactly then.
C26_PartitionColumnZeroWidth ==
    /\ (loaded /\ pc \in {"encode", "nulls"} /\ PartitionPlace > 0) =>
           \A i \in 1..Len(df_filled) :
               /\ df_filled[i].row[2 * PartitionPlace - 1]
                      = add_actions[i].partition_values["p"]
               /\ df_filled[i].row[2 * PartitionPlace]
                      = add_actions[i].partition_values["p"]
               /\ pc = "nulls" =>
                      df_encoded[i].row[2 * PartitionPlace - 1]
                          = df_encoded[i].row[2 * PartitionPlace]
    /\ (Counted /\ pc = "hist" /\ PartitionPlace > 0) =>
           \A a, b \in 1..Len(df_non_nulls) :
               LET same == add_actions[df_non_nulls[a].path].partition_values["p"]
                             = add_actions[df_non_nulls[b].path].partition_values["p"]
                   hit == (b - 1) \in RtreeHits(rindex, df_non_nulls[a].row)
               IN  /\ hit => same
                   /\ (columns = <<"p">> /\ same) => hit

C26_Witness ==
    /\ Counted
    /\ pc = "hist"
    /\ columns = <<"p">>
    /\ Len(add_actions) = 2
    /\ add_actions[1].partition_values["p"] = add_actions[2].partition_values["p"]
    /\ overlap_counts = <<1, 1>>

----------------------------------------------------------------------------
\* The order of the histogram's edges (checked under SpecHist).

\* C24: the bins of every histogram compute_histogram_metrics returns are
\* in ascending order, the appended last edge included.
C24_BinsAscending ==
    (HistDone /\ h_hist.status = "ok") =>
        \A j \in 1..(Len(h_hist.bins) - 1) : h_hist.bins[j] <= h_hist.bins[j + 1]

----------------------------------------------------------------------------
\* The order of the phases of clustering_health (checked under Spec).

\* The place of a position in the order of the phases.
PhaseRank(p) ==
    CASE p \in {"idle", "command"} -> 0
      [] p = "fill" -> 1
      [] p = "encode" -> 2
      [] p = "nulls" -> 3
      [] p = "insert" -> 4
      [] p = "count" -> 5
      [] p = "hist" -> 6
      [] p = "report" -> 7
      [] p = "done" -> 8

\* C27: the phases of a request come in the order encode, exclude nulls,
\* build the index, count the overlaps, summarise, none skipped unless an
\* exception ends the request; the index takes only rows that are encoded
\* and have no null, no query is answered before every box is inserted,
\* and the index is not modified once the queries have begun.
C27_PhasesOrdered ==
    [][/\ \/ pc' = "done"
          \/ PhaseRank(pc') = PhaseRank(pc)
          \/ PhaseRank(pc') = PhaseRank(pc) + 1
       /\ rindex' # rindex =>
              /\ pc \in {"nulls", "insert"}
              /\ df_encoded = apply_numerical_encoding(df_filled, columns)
              /\ pc = "insert" =>
                     /\ df_non_nulls = remove_nulls(df_encoded)
                     /\ overlap_counts = <<>>
       /\ overlap_counts' # overlap_counts =>
              /\ pc = "count"
              /\ Len(rindex) = Len(df_non_nulls)
              /\ rindex' = rindex
       /\ metrics_overlap' # metrics_overlap =>
              Len(overlap_counts) = Len(df_non_nulls)
       /\ PhaseRank(pc) >= 5 => rindex' = rindex]_vars

\* The first query is answered with the boxes of both files inserted.
C27_Witness ==
    /\ loaded
    /\ pc = "count"
    /\ cursor = 2
    /\ Len(rindex) = 2
    /\ Len(df_non_nulls) = 2
    /\ Len(overlap_counts) = 1

----------------------------------------------------------------------------
\* Properties of summary over the table's log (checked under Spec).

\* The commits whose file is active: no later commit overwrites.
ActiveCommits(log) ==
    {i \in 1..Len(log) :
        /\ log[i].files # <<>>
        /\ \A j \in (i + 1)..Len(log) : ~IsOverwrite(log[j])}

\* A value of every active file, None in the place of the other commits.
ActiveColumn(log, Value(_)) ==
    [i \in 1..Len(log) |->
        IF i \in ActiveCommits(log) THEN Value(log[i].files[1]) ELSE None]

\* The statistics are computed.
SummaryComputed == loaded /\ s_pc \in {"timestamps", "lineage", "done"}

SummaryReturned == s_pc = "done" /\ loaded /\ table_summary.status = "ok"

\* The table statistics are the count and the sums of the active files,
\* zero with no column statistics for a table of none.
TableStatisticsOfActiveFiles ==
    SummaryComputed =>
        /\ table_statistics.num_files = Cardinality(ActiveCommits(delta_log))
        /\ table_statistics.num_records
               = ColSum(ActiveColumn(delta_log, LAMBDA f : f.stats.num_records))
        /\ table_statistics.total_size_bytes
               = ColSum(ActiveColumn(delta_log, LAMBDA f : f.p + 1))
        /\ ActiveCommits(delta_log) = {} =>
               /\ table_statistics.num_files = 0
               /\ table_statistics.num_records = 0
               /\ table_statistics.total_size_bytes = 0
               /\ table_statistics.num_partitions = 0
               /\ column_statistics = <<>>

\* C21: the table_statistics of summary are the number of active files
\* and the sums of their records and sizes; a table of no active file is
\* summarised with no error, with zeros and empty column_statistics.
C21_TableStatisticsAreSums ==
    /\ TableStatisticsOfActiveFiles
    /\ (s_pc = "done" /\ loaded /\ ActiveCommits(delta_log) = {}) =>
           /\ table_summary.status = "ok"
           /\ table_summary.table_statistics.num_files = 0
           /\ table_summary.table_statistics.num_records = 0
           /\ table_summary.table_statistics.total_size_bytes = 0
           /\ table_summary.column_statistics = <<>>

\* The statistics of the data column x are the least min, the greatest
\* max and the sum of the null counts of the active files.
DataColumnStatistics ==
    (SummaryComputed /\ ActiveCommits(delta_log) # {}) =>
        /\ "x" \in DOMAIN column_statistics
        /\ column_statistics["x"].min
               = ColMin(ActiveColumn(delta_log, LAMBDA f : f.stats.min))
        /\ column_statistics["x"].max
               = ColMax(ActiveColumn(delta_log, LAMBDA f : f.stats.max))
        /\ column_statistics["x"].null_count
               = ColSum(ActiveColumn(delta_log, LAMBDA f : f.stats.null_count))

\* C22: column_statistics has every column of the schema of a table that
\* is not empty: min of the mins, max of the maxes and sum of the null
\* counts for a data column, and the least and greatest partition value
\* with null_count 0 for the partition column, which is present.
C22_ColumnStatisticsOfSchema ==
    /\ DataColumnStatistics
    /\ (SummaryComputed /\ ActiveCommits(delta_log) # {}) =>
           /\ "p" \in DOMAIN column_statistics
           /\ column_statistics["p"].min
                  = ColMin(ActiveColumn(delta_log, LAMBDA f : f.p))
           /\ column_statistics["p"].max
                  = ColMax(ActiveColumn(delta_log, LAMBDA f : f.p))
           /\ column_statistics["p"].null_count = 0

LatestCommit(log, Test(_)) ==
    LET hits == {k \in 1..Len(log) : Test(log[k])}
    IN  IF hits = {} THEN NoDatetime
        ELSE to_datetime(1500 * (CHOOSE k \in hits : \A j \in hits : j <= k))

IsCompletedVacuum(commit) ==
    /\ commit.operation = "VACUUM END"
    /\ commit.operationParameters["status"] = "COMPLETED"

IsOptimize(commit) == commit.operation = "OPTIMIZE"

\* C30: last_vacuum_timestamp is the timestamp of the most recent VACUUM
\* END commit of status COMPLETED, the others being skipped, and
\* last_optimize_timestamp that of the most recent OPTIMIZE commit; each
\* is null when there is no such commit.
C30_LastVacuumAndOptimize ==
    /\ (loaded /\ s_pc \in {"lineage", "done"}) =>
           /\ last_timestamps.last_vacuum_timestamp
                  = LatestCommit(delta_log, IsCompletedVacuum)
           /\ last_timestamps.last_optimize_timestamp
                  = LatestCommit(delta_log, IsOptimize)
    /\ SummaryReturned =>
           /\ table_summary.last_vacuum_timestamp
                  = LatestCommit(delta_log, IsCompletedVacuum)
           /\ table_summary.last_optimize_timestamp
                  = LatestCommit(delta_log, IsOptimize)

\* A write, an optimize and a failed vacuum: the vacuum is skipped.
C30_Witness ==
    /\ SummaryReturned
    /\ Len(delta_log) = 3
    /\ delta_log[3].operation = "VACUUM END"
    /\ delta_log[3].operationParameters["status"] = "FAILED"
    /\ table_summary.last_vacuum_timestamp = NoDatetime
    /\ table_summary.last_optimize_timestamp
           = [seconds |-> 3, microseconds |-> 0]

----------------------------------------------------------------------------
\* The items of a distribution (checked under SpecHist).

\* C29: min_item is the key of a row whose metric is the minimum and
\* max_item the key of a row whose metric is the maximum.
C29_MinMaxItems ==
    (h_pc = "items" /\ h_items.status = "ok") =>
        /\ h_values[h_items.min_item] = SeriesMin(h_values)
        /\ h_values[h_items.max_item] = SeriesMax(h_values)

----------------------------------------------------------------------------
\* Two requests in one process (checked under SpecTwo).

\* C28: two requests run in any interleaving return the reports they
\* return run alone, one after the other: the report of a request is
\* clustering_health of its own table, columns and history, whatever the
\* other request has done, and the module's BINS are never changed.
C28_InterleavingEqualsSequential ==
    /\ module_BINS = BINS
    /\ \A r \in DOMAIN requests :
           requests[r].pc = "done" =>
               requests[r].report = clustering_health(requests[r].add_actions,
                                                      requests[r].columns,
                                                      requests[r].history)

\* The first request has returned its report while the second, on other
\* columns, is between its metrics and its histogram.
C28_Witness ==
    /\ requests # <<>>
    /\ requests[1].pc = "done"
    /\ requests[1].report.status = "ok"
    /\ requests[2].pc = "hist"
    /\ requests[2].columns # requests[1].columns
    /\ requests[2].add_actions # <<>>

====
